---- MODULE Spec2Model ----
(***************************************************************************)
(* A model of gym_app_ai.py: the static routine table, the history lookup  *)
(* get_last_weight, the progression advisor ask_gemini_coach and the       *)
(* "Log Workout" button handler, over the remote "Workouts" sheet.         *)
(*                                                                         *)
(* Python values are modelled as follows.                                  *)
(*   - a number is kept in tenths (52.5 is x10 = 525), so that int() has   *)
(*     something to truncate;                                              *)
(*   - a text is a sequence of chunks (strings); the chunk "FENCE" is the  *)
(*     three-backquote code fence (a backquote cannot be written in a TLA+ *)
(*     string) and "json" the word that may follow it;                     *)
(*   - a scalar is [k, x10, s]: k = "num" | "str" | "none".                *)
(***************************************************************************)
EXTENDS Integers, Sequences, FiniteSets, TLC

VARIABLES
    log,      \* the data rows of the "Workouts" sheet, in append order
    today,    \* the value of datetime.date.today(), a [y, m, d] record
    saved,    \* number of "Log Workout" handlers that ran to their last line
    run       \* what the last operation (a lookup or a button handler) did

vars == <<log, today, saved, run>>

----------------------------------------------------------------------------
(* Bounds of the model *)

MaxLog == 2        \* rows the sheet may hold

----------------------------------------------------------------------------
(* Python scalars *)

Num(t) == [k |-> "num", x10 |-> t, s |-> <<>>]
Str(chunks) == [k |-> "str", x10 |-> 0, s |-> chunks]
None == [k |-> "none", x10 |-> 0, s |-> <<>>]
PyInt(i) == Num(i * 10)

\* The outcome of evaluating a Python expression or call.
Return(v) == [kind |-> "return", val |-> v]
Raise == [kind |-> "raise", val |-> None]
Fall == [kind |-> "fall", val |-> None]

\* int(v): truncation toward zero of a number; ValueError on a text that is
\* no integer literal (no text of the model is one), TypeError on None.
int(v) ==
    IF v.k = "num"
    THEN Return(Num(IF v.x10 >= 0 THEN (v.x10 \div 10) * 10
                    ELSE -(((-v.x10) \div 10) * 10)))
    ELSE Raise

----------------------------------------------------------------------------
(* DEFAULT_ROUTINE *)

Ex(name, sets, reps, dw) ==
    [exercise |-> name, sets |-> sets, reps |-> reps, default_weight |-> dw]

Days == <<"Push", "Pull", "Legs", "Cardio">>

DEFAULT_ROUTINE ==
    [day \in {Days[i] : i \in 1..Len(Days)} |->
       CASE day = "Push" ->
              << Ex("Machine Chest Press", 3, "8-10", 45),
                 Ex("Pec Deck (Fly)", 3, "8-10", 120),
                 Ex("Machine Shoulder Press", 3, "10-12", 40),
                 Ex("Cable Tricep Pushdowns", 4, "12-15", 50),
                 Ex("Machine Incline Press", 3, "10", 45),
                 Ex("Machine Lateral Raise", 4, "15", 15) >>
         [] day = "Pull" ->
              << Ex("Lat Pulldown (Wide)", 3, "10-12", 70),
                 Ex("Seated Cable Row", 3, "10-12", 70),
                 Ex("Face Pulls", 4, "15", 30),
                 Ex("Machine Bicep Curl", 3, "10-12", 30),
                 Ex("Cable Hammer Curls", 4, "12", 30),
                 Ex("Tricep Overhead Ext", 3, "12", 30) >>
         [] day = "Legs" ->
              << Ex("Leg Press", 3, "10-12", 180),
                 Ex("Seated Leg Curl", 3, "12-15", 90),
                 Ex("Calf Raise Machine", 4, "15", 90),
                 Ex("Leg Extensions", 3, "8", 90),
                 Ex("Bulgarian Split Squats", 3, "10", 0) >>
         [] day = "Cardio" ->
              << Ex("Incline Walk", 1, "40 mins", 0) >>]

\* Every exercise record of the table, in the order the fallback loop of
\* get_last_weight visits them (days in insertion order, then list order).
RECURSIVE AllExercises(_)
AllExercises(d) ==
    IF d > Len(Days) THEN <<>>
    ELSE DEFAULT_ROUTINE[Days[d]] \o AllExercises(d + 1)

Exercises == AllExercises(1)

RoutineNames == {Exercises[i].exercise : i \in 1..Len(Exercises)}

----------------------------------------------------------------------------
(* The sheet: positional rows on write, records keyed by header on read *)

Columns == <<"Date", "Exercise", "Weight", "Sets", "Reps", "Difficulty",
             "Next_Weight", "Message">>

ColumnOf(c) == CHOOSE i \in 1..Len(Columns) : Columns[i] = c

\* Outcomes of sheet.get_all_records().
FetchOutcomes == {"ok", "fault", "no_Exercise", "no_Next_Weight"}

\* The header names the read finds in the sheet's first row.
Headers(fetch) ==
    {Columns[i] : i \in 1..Len(Columns)} \
        (CASE fetch = "no_Exercise" -> {"Exercise"}
           [] fetch = "no_Next_Weight" -> {"Next_Weight"}
           [] OTHER -> {})

\* Faulty variant: the filter on the exercise name is dropped.
ex_history_unfiltered(sheet, exercise_name) == sheet

\* df[df['Exercise'] == exercise_name]: the rows of that exercise, in order.
ex_history(sheet, exercise_name) ==
    SelectSeq(sheet, LAMBDA r : r[ColumnOf("Exercise")] = exercise_name)

\* The try block of get_last_weight: returns, raises, or falls through.
try_block(exercise_name, fetch, sheet) ==
    IF fetch = "fault" THEN Raise
    ELSE IF sheet = <<>> \/ "Exercise" \notin Headers(fetch) THEN Raise
    ELSE LET h == ex_history(sheet, exercise_name) IN
         IF h # <<>>
         THEN IF "Next_Weight" \notin Headers(fetch) THEN Raise
              ELSE int(h[Len(h)][ColumnOf("Next_Weight")])
         ELSE Fall

\* The fallback loop over DEFAULT_ROUTINE, and the final return 0.
RECURSIVE fallback_from(_, _)
fallback_from(exercise_name, i) ==
    IF i > Len(Exercises) THEN PyInt(0)
    ELSE IF Exercises[i].exercise = exercise_name
         THEN PyInt(Exercises[i].default_weight)
         ELSE fallback_from(exercise_name, i + 1)

fallback(exercise_name) == fallback_from(exercise_name, 1)

\* Faulty variant: without the except clause, an exception of the try block
\* leaves the function.
get_last_weight_no_except(exercise_name, fetch, sheet) ==
    LET t == try_block(exercise_name, fetch, sheet) IN
    IF t.kind = "fall" THEN Return(fallback(exercise_name)) ELSE t

\* get_last_weight: the try block's value, or after "except: pass" and after
\* a try block that returned nothing, the fallback.
get_last_weight(exercise_name, fetch, sheet) ==
    LET t == try_block(exercise_name, fetch, sheet) IN
    IF t.kind = "return" THEN t ELSE Return(fallback(exercise_name))

----------------------------------------------------------------------------
(* Texts: str.replace, str.strip and json.loads over chunks *)

Whitespace == {"\n", " "}

\* text.replace(old, ""): every non-overlapping occurrence, left to right.
RECURSIVE replace(_, _)
replace(text, old) ==
    IF Len(text) < Len(old) THEN text
    ELSE IF SubSeq(text, 1, Len(old)) = old
         THEN replace(SubSeq(text, Len(old) + 1, Len(text)), old)
         ELSE <<Head(text)>> \o replace(Tail(text), old)

\* text.strip(): leading and trailing whitespace removed.
RECURSIVE lstrip(_)
lstrip(text) ==
    IF text # <<>> /\ Head(text) \in Whitespace THEN lstrip(Tail(text)) ELSE text

RECURSIVE rstrip(_)
rstrip(text) ==
    IF text # <<>> /\ text[Len(text)] \in Whitespace
    THEN rstrip(SubSeq(text, 1, Len(text) - 1)) ELSE text

strip(text) == lstrip(rstrip(text))

\* The number literals of the replies, and their values in tenths.
NumberLiteral(tok) ==
    CASE tok = "50" -> 500
      [] tok = "55" -> 550
      [] tok = "52.5" -> 525
      [] OTHER -> -1

IsNumberLiteral(tok) == tok \in {"50", "55", "52.5"}

KeyTokens == {"\"new_weight\":", "\"message\":"}

KeyName(tok) == IF tok = "\"new_weight\":" THEN "new_weight" ELSE "message"

\* What json.loads returns: a dict (only the two keys the program reads are
\* kept) or some other JSON value (a list, a bare number or string).
Dict(keys, nw, msg) ==
    [t |-> "dict", keys |-> keys, new_weight |-> nw, message |-> msg]

NonDict == [t |-> "other", keys |-> {}, new_weight |-> None, message |-> None]

\* The position of the first non-whitespace chunk at or after i.
RECURSIVE skip(_, _)
skip(text, i) ==
    IF i <= Len(text) /\ text[i] \in Whitespace THEN skip(text, i + 1) ELSE i

NoParse == [ok |-> FALSE, val |-> None, next |-> 0]

\* A JSON number or string starting at chunk i.
parse_scalar(text, i) ==
    IF i > Len(text) THEN NoParse
    ELSE IF IsNumberLiteral(text[i])
         THEN [ok |-> TRUE, val |-> Num(NumberLiteral(text[i])), next |-> i + 1]
    ELSE IF text[i] = "\""
         THEN LET close == {j \in (i + 1)..Len(text) : text[j] = "\""} IN
              IF close = {} THEN NoParse
              ELSE LET j == CHOOSE c \in close : \A d \in close : c <= d IN
                   [ok |-> TRUE, val |-> Str(SubSeq(text, i + 1, j - 1)),
                    next |-> j + 1]
    ELSE NoParse

\* The members of a JSON object from chunk i on, up to the closing brace,
\* which must end the text.
RECURSIVE parse_members(_, _, _)
parse_members(text, i, acc) ==
    LET k == skip(text, i) IN
    IF k > Len(text) \/ text[k] \notin KeyTokens THEN Raise
    ELSE LET v == parse_scalar(text, skip(text, k + 1)) IN
         IF ~v.ok THEN Raise
         ELSE LET name == KeyName(text[k])
                  acc2 == [acc EXCEPT !.keys = @ \cup {name}, ![name] = v.val]
                  n == skip(text, v.next)
              IN IF n > Len(text) THEN Raise
                 ELSE IF text[n] = "," THEN parse_members(text, n + 1, acc2)
                 ELSE IF text[n] = "}" /\ skip(text, n + 1) > Len(text)
                      THEN Return(acc2)
                 ELSE Raise

json_loads(text) ==
    LET i == skip(text, 1) IN
    IF i > Len(text) THEN Raise
    ELSE IF text[i] = "{"
         THEN LET j == skip(text, i + 1) IN
              IF j <= Len(text) /\ text[j] = "}" /\ skip(text, j + 1) > Len(text)
              THEN Return(Dict({}, None, None))
              ELSE parse_members(text, i + 1, Dict({}, None, None))
    ELSE IF text[i] = "["
         THEN LET j == skip(text, i + 1) IN
              IF j <= Len(text) /\ text[j] = "]" /\ skip(text, j + 1) > Len(text)
              THEN Return(NonDict) ELSE Raise
    ELSE LET v == parse_scalar(text, i) IN
         IF v.ok /\ skip(text, v.next) > Len(text) THEN Return(NonDict) ELSE Raise

----------------------------------------------------------------------------
(* ask_gemini_coach *)

\* What model.generate_content(prompt) does: raises, or replies with a text.
Fault == [fault |-> TRUE, text |-> <<>>]
Reply(text) == [fault |-> FALSE, text |-> text]

clean_text(text) ==
    strip(replace(replace(text, <<"FENCE", "json">>), <<"FENCE">>))

coach_fallback(current_weight) ==
    Dict({"new_weight", "message"}, PyInt(current_weight),
         Str(<<"AI connection issue. Keeping weight same.">>))

ask_gemini_coach(exercise, current_weight, difficulty, reply) ==
    IF reply.fault THEN coach_fallback(current_weight)
    ELSE LET parsed == json_loads(clean_text(reply.text)) IN
         IF parsed.kind = "return" THEN parsed.val
         ELSE coach_fallback(current_weight)

----------------------------------------------------------------------------
(* The "Log Workout" button handler *)

\* str(datetime.date.today()): ISO format, zero padded.
pad2(n) == IF n < 10 THEN "0" \o ToString(n) ELSE ToString(n)

isoformat(date) == ToString(date.y) \o "-" \o pad2(date.m) \o "-" \o pad2(date.d)

\* Faulty variant: the weight used is written in the Next_Weight column.
row_data_swapped(date, ex, actual_weight, difficulty, ai_result) ==
    << isoformat(date), ex.exercise, actual_weight, ex.sets, ex.reps,
       difficulty, PyInt(actual_weight), ai_result.message >>

\* row_data, the eight positional values of the new row.
row_data(date, ex, actual_weight, difficulty, ai_result) ==
    << isoformat(date), ex.exercise, actual_weight, ex.sets, ex.reps,
       difficulty, ai_result.new_weight, ai_result.message >>

\* Faulty variants: the row replaces the last row; a row the sheet already
\* holds is not appended again.
append_row_overwrite(sheet, row) ==
    IF sheet = <<>> THEN <<row>> ELSE [sheet EXCEPT ![Len(sheet)] = row]

append_row_dedup(sheet, row) ==
    IF \E i \in 1..Len(sheet) : sheet[i] = row THEN sheet ELSE Append(sheet, row)

\* sheet.append_row(row): the row goes after the last row of the sheet.
append_row(sheet, row) == Append(sheet, row)

\* Faulty variant: the failure of the append is swallowed.
after_append_swallow(append_ok) == <<"st.success", "st.info">>

\* The calls the handler makes after sheet.append_row: none when it raised,
\* for the exception leaves the handler.
after_append(append_ok) ==
    IF append_ok THEN <<"st.success", "st.info">> ELSE <<>>

\* The calls up to the append: the advisor, once, then sheet.append_row.
calls_to_append == <<"ask_gemini_coach", "append_row">>

\* The handler: what it leaves in the sheet, the calls it made in order, how
\* it ended, and the advisor's result and the row it built (<<>> if none).
button_handler(ex, actual_weight, difficulty, reply, append_ok, sheet, date) ==
    LET ai_result == ask_gemini_coach(ex.exercise, actual_weight, difficulty, reply)
    IN
    IF ai_result.t # "dict" \/ ~({"new_weight", "message"} \subseteq ai_result.keys)
    THEN \* ai_result['new_weight'] or ai_result['message'] raises
         [sheet |-> sheet, calls |-> <<"ask_gemini_coach">>, status |-> "raised",
          ai_result |-> ai_result, row |-> <<>>]
    ELSE LET row == row_data(date, ex, actual_weight, difficulty, ai_result) IN
         [sheet |-> IF append_ok THEN append_row(sheet, row) ELSE sheet,
          calls |-> calls_to_append \o after_append(append_ok),
          status |-> IF append_ok THEN "done" ELSE "raised",
          ai_result |-> ai_result, row |-> row]

----------------------------------------------------------------------------
(* Inputs *)

\* The panels whose button is pressed, with what the user entered in them
\* (the weight used and the difficulty), and the names looked up: the
\* panels' exercises and a name that is in no routine day.
Difficulties == <<"Perfect", "Too Easy", "Too Hard/Fail">>

Panels ==
    { [exercise |-> "Machine Chest Press", w |-> 50, d |-> "Too Easy"],
      [exercise |-> "Leg Press", w |-> 190, d |-> "Too Hard/Fail"] }

LookupNames == {p.exercise : p \in Panels} \cup {"Deadlift"}

FirstDate == [y |-> 2024, m |-> 3, d |-> 9]
LastDate == [y |-> 2024, m |-> 3, d |-> 10]

\* json.dumps of the object {"new_weight": nw, "message": msg}.
Literal(x10) ==
    CASE x10 = 500 -> "50"
      [] x10 = 550 -> "55"
      [] x10 = 525 -> "52.5"

dumps_scalar(v) == IF v.k = "num" THEN <<Literal(v.x10)>> ELSE <<"\"">> \o v.s \o <<"\"">>

dumps(nw, msg) ==
    <<"{", "\"new_weight\":">> \o dumps_scalar(nw) \o <<",", "\"message\":">>
        \o dumps_scalar(msg) \o <<"}">>

Wrappers == {"bare", "fenced_json", "fenced"}

Wrap(w, text) ==
    CASE w = "bare" -> text
      [] w = "fenced_json" -> <<"FENCE", "json", "\n">> \o text \o <<"\n", "FENCE">>
      [] w = "fenced" -> <<"FENCE", "\n">> \o text \o <<"\n", "FENCE">>

GoodWork == Str(<<"Good work">>)
FencedAdvice == Str(<<"Try ", "FENCE", "52.5", "FENCE">>)

\* The replies of the text-generation service the model draws from.
Replies ==
    { Fault,
      Reply(<<"Sure!", " ">> \o dumps(Num(550), GoodWork)),
      Reply(Wrap("bare", dumps(Num(550), GoodWork))),
      Reply(Wrap("fenced_json", dumps(Num(550), GoodWork))),
      Reply(Wrap("fenced", dumps(Num(525), FencedAdvice))),
      Reply(Wrap("bare", dumps(Str(<<"heavy">>), GoodWork))),
      Reply(<<"{", "\"new_weight\":", "55", "}">>),
      Reply(<<"[", "]">>) }

----------------------------------------------------------------------------
(* The state machine *)

NoRun ==
    [op |-> "none", name |-> "", fetch |-> "", result |-> Fall,
     weight |-> 0, difficulty |-> "", reply |-> Fault,
     ai_result |-> NonDict, calls |-> <<>>, status |-> "", row |-> <<>>]

Init ==
    /\ log = <<>>
    /\ today = FirstDate
    /\ saved = 0
    /\ run = NoRun

\* One iteration of the render loop: suggested_weight = get_last_weight(...).
Lookup ==
    /\ \E name \in LookupNames, fetch \in FetchOutcomes :
          run' = [NoRun EXCEPT !.op = "lookup", !.name = name, !.fetch = fetch,
                               !.result = get_last_weight(name, fetch, log)]
    /\ UNCHANGED <<log, today, saved>>

\* The user presses "Log Workout" in the panel of one exercise of a day.
LogWorkout ==
    /\ Len(log) < MaxLog
    /\ \E day \in DOMAIN DEFAULT_ROUTINE, panel \in Panels,
          reply \in Replies, append_ok \in BOOLEAN :
          \E i \in 1..Len(DEFAULT_ROUTINE[day]) :
             LET ex == DEFAULT_ROUTINE[day][i]
                 h == button_handler(ex, panel.w, panel.d, reply, append_ok, log, today)
             IN /\ ex.exercise = panel.exercise
                /\ panel.d \in {Difficulties[j] : j \in 1..Len(Difficulties)}
                /\ log' = h.sheet
                /\ saved' = IF h.status = "done" THEN saved + 1 ELSE saved
                /\ run' = [NoRun EXCEPT !.op = "log", !.name = ex.exercise,
                                        !.weight = panel.w, !.difficulty = panel.d,
                                        !.reply = reply, !.ai_result = h.ai_result,
                                        !.calls = h.calls, !.status = h.status,
                                        !.row = h.row]
    /\ UNCHANGED today

\* Midnight passes.
NextDay ==
    /\ today.d < LastDate.d
    /\ today' = [today EXCEPT !.d = @ + 1]
    /\ UNCHANGED <<log, saved, run>>

Next == Lookup \/ LogWorkout \/ NextDay

Spec == Init /\ [][Next]_vars

----------------------------------------------------------------------------
(* Vocabulary of the properties, stated on the data and not on the code *)

\* The records of the static routine table, and the default of a name.
TableEntries ==
    UNION {{DEFAULT_ROUTINE[d][i] : i \in 1..Len(DEFAULT_ROUTINE[d])} :
           d \in DOMAIN DEFAULT_ROUTINE}

TableEntry(name) == CHOOSE e \in TableEntries : e.exercise = name

TableDefault(name) ==
    IF \E e \in TableEntries : e.exercise = name
    THEN TableEntry(name).default_weight ELSE 0

\* The positions of the rows of an exercise (column 2), and the last one.
RowsOf(name, sheet) == {i \in 1..Len(sheet) : sheet[i][2] = name}

LastRowOf(name, sheet) ==
    CHOOSE i \in RowsOf(name, sheet) : \A j \in RowsOf(name, sheet) : j <= i

Count(row, sheet) == Cardinality({i \in 1..Len(sheet) : sheet[i] = row})

Calls(c) == Cardinality({i \in 1..Len(run.calls) : run.calls[i] = c})

BothKeys == {"new_weight", "message"}

\* The replies of the expected shape: an object with a numeric new_weight
\* and a string message, bare or fenced.
NumericWeights == {Num(500), Num(550), Num(525)}
Messages == {GoodWork, FencedAdvice}

ExpectedShape(reply) ==
    /\ ~reply.fault
    /\ \E w \in Wrappers, nw \in NumericWeights, msg \in Messages :
          reply.text = Wrap(w, dumps(nw, msg))

\* The read of the sheet, or the parsing of what it holds, fails.
ReadOrParseFails(name, fetch, sheet) ==
    \/ fetch # "ok"
    \/ sheet = <<>>
    \/ /\ RowsOf(name, sheet) # {}
       /\ sheet[LastRowOf(name, sheet)][7].k # "num"

IsoOf(date) ==
    CASE date = FirstDate -> "2024-03-09"
      [] date = LastDate -> "2024-03-10"

\* A step of the "Log Workout" handler.
LogStep == run'.op = "log" /\ (run' # run \/ log' # log)

----------------------------------------------------------------------------
(* Properties *)

\* C1: whenever at least one row of the log has the exercise name, a lookup
\* with a successful fetch returns the Next_Weight value (column 7) of the
\* matching row appended last, whatever the other rows and the default are.
C1_LastMatchingRowWins ==
    (run.op = "lookup" /\ run.fetch = "ok" /\ RowsOf(run.name, log) # {})
        => run.result = Return(log[LastRowOf(run.name, log)][7])

\* C2: get_last_weight never raises, for any name and any outcome of the
\* read, and whenever the read or the parsing fails it returns the
\* default_weight of the name in the routine table, or 0 for a name that is
\* in no routine day.
C2_LookupNeverRaises ==
    /\ \A name \in RoutineNames \cup LookupNames, fetch \in FetchOutcomes :
          LET r == get_last_weight(name, fetch, log) IN
          /\ r.kind = "return"
          /\ ReadOrParseFails(name, fetch, log) => r.val = PyInt(TableDefault(name))
    /\ run.op = "lookup" =>
          /\ run.result.kind = "return"
          /\ ReadOrParseFails(run.name, run.fetch, log)
                => run.result.val = PyInt(TableDefault(run.name))

\* A lookup with a successful fetch whose last matching row holds a
\* Next_Weight that is no number, and the lookup returned the default (45).
C2_Witness ==
    /\ run.op = "lookup" /\ run.fetch = "ok" /\ run.name = "Machine Chest Press"
    /\ RowsOf(run.name, log) # {}
    /\ log[LastRowOf(run.name, log)][7].k = "str"
    /\ run.result = Return(Num(450))

\* C3: when the text-generation call fails or its reply is not of the
\* expected shape, the advisor returns exactly {new_weight: the input weight,
\* message: "AI connection issue. Keeping weight same."}; so its result
\* always has both a new_weight and a message.
C3_FallbackOnBadReply ==
    run.op = "log" =>
        /\ ~ExpectedShape(run.reply) =>
              run.ai_result =
                  Dict(BothKeys, PyInt(run.weight),
                       Str(<<"AI connection issue. Keeping weight same.">>))
        /\ BothKeys \subseteq run.ai_result.keys

\* C4: a "Log Workout" action that completes appends exactly one row and
\* changes no existing row: the log before any step is a prefix of the log
\* after it, and its length grows by one with each completed action.
C4_AppendOnly ==
    [][ /\ Len(log') >= Len(log)
        /\ SubSeq(log', 1, Len(log)) = log
        /\ saved' # saved => (saved' = saved + 1 /\ Len(log') = Len(log) + 1)
      ]_vars

\* Two actions have completed, and the sheet holds their two rows.
C4_Witness ==
    saved = 2 /\ Len(log) = 2 /\ run.op = "log" /\ run.status = "done"

\* C5: in a "Log Workout" action that reaches the append, the advisor was
\* called exactly once and before the append, the append was called once, and
\* the row is [today's date, the exercise name, the weight entered, the
\* routine's sets, the routine's reps, the difficulty, the advisor's
\* new_weight, the advisor's message]; a completed action leaves that row
\* last in the log.
C5_AdvisorThenRow ==
    [][ (LogStep /\ \E i \in 1..Len(run'.calls) : run'.calls[i] = "append_row")
        => LET c == run'.calls
               expected ==
                   << IsoOf(today), run'.name, run'.weight,
                      TableEntry(run'.name).sets, TableEntry(run'.name).reps,
                      run'.difficulty, run'.ai_result.new_weight,
                      run'.ai_result.message >>
           IN /\ Len(c) >= 2 /\ c[1] = "ask_gemini_coach" /\ c[2] = "append_row"
              /\ \A i \in 3..Len(c) : c[i] \notin {"ask_gemini_coach", "append_row"}
              /\ run'.row = expected
              /\ saved' = saved + 1 =>
                    (log' # <<>> /\ log'[Len(log')] = expected)
      ]_vars

\* Machine Chest Press logged at 50 with "Too Easy" and the advisor's 55:
\* the row of the spec's scenario is the last row of the log.
C5_Witness ==
    /\ run.op = "log" /\ run.status = "done" /\ log # <<>>
    /\ \E date \in {"2024-03-09", "2024-03-10"} :
          log[Len(log)] = << date, "Machine Chest Press", 50, 3, "8-10",
                             "Too Easy", Num(550), GoodWork >>

\* C6: for every exercise name of the routine table that has no row in the
\* log, get_last_weight returns that exercise's default_weight, whatever the
\* rows of other exercises hold and whatever the read does.
C6_DefaultWhenNoHistory ==
    /\ \A name \in RoutineNames, fetch \in FetchOutcomes :
          RowsOf(name, log) = {}
             => get_last_weight(name, fetch, log) = Return(PyInt(TableDefault(name)))
    /\ (run.op = "lookup" /\ run.name \in RoutineNames /\ RowsOf(run.name, log) = {})
          => run.result = Return(PyInt(TableDefault(run.name)))

\* Machine Chest Press looked up, with a successful fetch, in a log that
\* holds rows of another exercise only: the result is 45.
C6_Witness ==
    /\ run.op = "lookup" /\ run.fetch = "ok" /\ run.name = "Machine Chest Press"
    /\ log # <<>> /\ RowsOf(run.name, log) = {}
    /\ run.result = Return(Num(450))

\* C7: the success confirmation and the "Next time" message are shown only
\* when the action's row has been appended; when the append fails neither is
\* shown, and the append is attempted once at most.
C7_SuccessOnlyAfterAppend ==
    run.op = "log" =>
        /\ (Calls("st.success") > 0 \/ Calls("st.info") > 0)
              => (run.status = "done" /\ log # <<>> /\ log[Len(log)] = run.row)
        /\ run.status = "raised" => (Calls("st.success") = 0 /\ Calls("st.info") = 0)
        /\ Calls("append_row") <= 1

\* An action whose append failed: one attempt, nothing shown.
C7_Witness ==
    /\ run.op = "log" /\ run.status = "raised"
    /\ Calls("append_row") = 1 /\ Calls("st.success") = 0 /\ Calls("st.info") = 0

\* C8: given a well-formed JSON reply carrying new_weight = n and message =
\* m, bare or fenced, the advisor returns exactly {new_weight: n, message: m}.
C8_WellFormedReplyReturned ==
    run.op = "log" =>
        \A w \in Wrappers, nw \in NumericWeights, msg \in Messages :
            run.reply = Reply(Wrap(w, dumps(nw, msg)))
               => run.ai_result = Dict(BothKeys, nw, msg)

\* C9: Log Append is not idempotent: a completed action adds one more copy
\* of its row, also when the log already holds that row.
C9_NotIdempotent ==
    [][ saved' = saved + 1 => Count(run'.row, log') = Count(run'.row, log) + 1 ]_vars

\* The same action completed twice: the row is in the log twice.
C9_Witness ==
    /\ run.op = "log" /\ run.status = "done" /\ Len(log) >= 2
    /\ log[Len(log)] = run.row
    /\ \E i \in 1..(Len(log) - 1) : log[i] = run.row

\* C10: once a "Log Workout" action for an exercise has completed with the
\* advisor's new_weight = n, a lookup of that exercise with a successful
\* fetch returns n, for every value n, and the lookups of every other
\* exercise return what they returned before the action.
C10_LogThenLookup ==
    (run.op = "log" /\ run.status = "done") =>
        /\ get_last_weight(run.name, "ok", log) = Return(run.ai_result.new_weight)
        /\ \A e \in (RoutineNames \cup LookupNames) \ {run.name} :
              get_last_weight(e, "ok", log)
                 = get_last_weight(e, "ok", SubSeq(log, 1, Len(log) - 1))

====
